---- MODULE Spec2Model ----
(***************************************************************************)
(* A model of src/profiler/telemeh.c: the telemetry ring buffer of MoarVM.  *)
(*                                                                         *)
(* Threads: the owning thread (Main, which runs initTelemetry and later    *)
(* finishTelemetry), the producer threads, which call the event API at any *)
(* time, and the background serialization thread.                          *)
(*                                                                         *)
(* A step is one statement that accesses memory another thread can see,    *)
(* together with the thread-local work around it.  newRecord reads the     *)
(* plain (non-atomic, non-volatile) global recordBufferIndex twice per     *)
(* loop iteration, at line 83 and at line 84, racing with the              *)
(* compare-and-swap of the other threads; a build either keeps both loads  *)
(* or merges them into the one of line 83.                                 *)
(*                                                                         *)
(* Every store of a call into its slot is a step of its own (lines         *)
(* 101-104, 117-122, 134-139, 148-151, 249-250, 253-254), and so is every  *)
(* load of the loop that renders a slot (line 187, line 189 and each       *)
(* member the fprintf of the case prints), so that a reader can find a     *)
(* slot half written and a writer can store between two loads of           *)
(* the reader.                                                             *)
(*                                                                         *)
(* These stores and loads are plain: nothing in the source orders the      *)
(* stores of a call among themselves, nor the loads of the arguments of    *)
(* one fprintf, and the compiler emits them in an order of its own.  The   *)
(* order is a property of the build; a run is a run of one build (see      *)
(* Builds).                                                                *)
(*                                                                         *)
(* A slot is its memory: recordType, threadID, and the three 8-byte cells  *)
(* of the union, which the members of the union share.  A cell is two      *)
(* 32-bit words.  Cycle counts are abstracted to one value (TSC), the      *)
(* calibrated ratio to one value (CalibratedTicks).                        *)
(***************************************************************************)
EXTENDS Naturals, Sequences, FiniteSets

\* ------------------------------------------------------------------ bounds
\* The capacity of the ring (RECORD_BUFFER_SIZE is 10000 in the source,
\* line 68), scaled down.
RECORD_BUFFER_SIZE == 3
\* Event API calls made in a run, by all producer threads together.
MaxCalls == 3
\* The same, in the smaller scenarios (the specifications built on NextRace,
\* NextIntervals, NextRaceFair, NextDrainFair, NextRender and NextPass).
MaxRaceCalls == 2

Main == 0
\* The producer threads (their thread ids).
Producers == {1, 2}
Threads == {Main} \cup Producers
Slots == 0..(RECORD_BUFFER_SIZE - 1)

\* What READ_TSC stores (every reading abstracted to one non-zero value).
TSC == 1
\* The description a caller passes (a string literal of the caller).
Descriptions == {"d"}
\* The string literals the callers pass, in the order of their addresses.
StringTable == <<"d">>
\* The API operations.
Ops == {"takeTimeStamp", "startInterval", "stopInterval", "annotateInterval"}

\* ------------------------------------------------- the memory of a record
\* A 32-bit word: the unsigned int n, or one half (0 the low one, 1 the high
\* one) of the 8-byte value v of a kind ("tsc" a cycle count, "dbl" a double,
\* "ptr" a pointer to a string literal).
UInt(n) == <<"int", 0, n>>
ZeroWord == UInt(0)
\* An 8-byte cell <<low word, high word>> (x86-64, little endian) holding the
\* 8-byte value v of a kind.
Whole(kind, v) == << <<kind, 0, v>>, <<kind, 1, v>> >>
\* A cell of the static, zero-initialised array; read as a pointer it is NULL.
NullCell == <<ZeroWord, ZeroWord>>
\* The address of the string literal d, as a cell (a position-independent
\* x86-64 executable: the literals lie above 4 GiB, so the high word of the
\* address is not zero).
PointerTo(d) == Whole("ptr", CHOOSE a \in 1..Len(StringTable) : StringTable[a] = d)
\* A cell after a 4-byte store of word into its low half (lines 121, 138, 150).
StoreLow(cell, word) == <<word, cell[2]>>
\* A 4-byte read of the low half of a cell.
Low(cell) == cell[1]

\* The offsets of the members of the union (lines 30-52 and 59-65), as cells
\* of the record: calibration.ticksPerSecond, epoch.time, timeStamp.time and
\* interval.time are cell 1, and annotation.intervalID is its low word;
\* timeStamp.description and annotation.description are cell 2, and
\* interval.intervalID is its low word; interval.description is cell 3.
TimeCell == 1
TimeStampDescriptionCell == 2
IntervalIDCell == 2
IntervalDescriptionCell == 3
AnnotationIDCell == 1
AnnotationDescriptionCell == 2

VARIABLES
    \* ---- the globals of telemeh.c
    recordBuffer,                     \* Slots -> TelemetryRecord
    recordBufferIndex,                \* the write cursor
    lastSerializedIndex,              \* the drain cursor
    beginningEpoch,
    telemetry_active,
    intervalIDCounter,
    continueBackgroundSerialization,
    \* ---- per thread: the position in its call and the locals of the call
    pc,                               \* Threads -> position
    op,                               \* Threads -> the API call in progress
    arg,                              \* Threads -> [intervalID, description] passed
    recordIndex,                      \* Threads -> local of newRecord (line 83)
    newBufferIndex,                   \* Threads -> local of newRecord (line 84)
    record,                           \* Threads -> the slot newRecord returned
    intervalID,                       \* Threads -> local of startInterval
    ret,                              \* Threads -> what its last startInterval returned
    calls,                            \* API calls made so far
    \* ---- the background serialization thread
    dpc,                              \* its position
    serializationStart,
    serializationEnd,
    todo,                             \* the ranges still to serialize in this pass
    i,                                \* the loop variable of serializeTelemetryBufferRange
    switchType,                       \* the recordType read at line 189
    fetched,                          \* the members the fprintf of the case has loaded
    outfile,                          \* [open, lines, pending]: the sink (lines is a
                                      \* log; pending is the text of line 187, whose
                                      \* line is not finished yet)
    \* ---- fixed for the whole run
    build,                            \* the build that runs (one of Builds)
    traced,                           \* whether this run keeps the logs
    \* ---- history (not program state)
    grantLog,                         \* slot indices in the order of the successful CAS
    lastGrant,                        \* (log) Threads -> position in grantLog of its grant
    nGrants,                          \* successful CAS so far
    seenGrants,                       \* Threads -> nGrants at its line-83 read
    sinceSnap,                        \* grants since the latest drain snapshot
    prevSnap,                         \* sinceSnap as the latest snapshot found it
    passIdx,                          \* slot indices rendered in the current pass
    drawn,                            \* identifiers in the order of the fetch-and-add
    returns,                          \* what the startInterval calls returned, and how often
    due,                              \* (log) grants whose record was complete at the
                                      \* first drain snapshot after the grant
    overflowed                        \* (log) whether a snapshot found more than
                                      \* RECORD_BUFFER_SIZE grants since the one before

globals == <<recordBuffer, recordBufferIndex, lastSerializedIndex, beginningEpoch,
             telemetry_active, intervalIDCounter, continueBackgroundSerialization>>
locals == <<pc, op, arg, recordIndex, newBufferIndex, record, intervalID, ret, calls>>
drain == <<dpc, serializationStart, serializationEnd, todo, i, switchType, fetched,
           outfile>>
fixed == <<build, traced>>
history == <<grantLog, lastGrant, nGrants, seenGrants, sinceSnap, prevSnap,
             passIdx, drawn, returns, due, overflowed>>

\* A log is kept in the runs that are traced and left alone in the others.
Track(new, old) == IF traced THEN new ELSE old
vars == <<globals, locals, drain, fixed, history>>

\* ---------------------------------------------------------------- builds
\* The builds of the file that are modelled: gcc 12.2 for x86-64 at -O0, -Og,
\* -O1, -O2 and -Os.  They differ in the order of the plain stores of a call
\* into its slot, in the order of the loads of the members one fprintf
\* prints, and in the loads they keep.  Other levels and flags give further
\* orders, which are not modelled: -O3 and -Ofast inline
\* serializeTelemetryBuffer into the loop of backgroundSerialization and load
\* continueBackgroundSerialization (line 229) before they store
\* lastSerializedIndex (line 224).
Builds == {"O0", "Og", "O1", "O2", "Os"}

\* line 84: whether newRecord loads recordBufferIndex again (-O0), or uses
\* the value loaded at line 83.
RereadsIndex == build = "O0"

\* line 256: whether the cycle count is loaded back from the slot (-O0), or
\* is the value READ_TSC produced at line 253, still in its register.
LatchesFromSlot == build = "O0"

\* The positions of a call after newRecord (for startInterval, after line 116)
\* in the order in which the build executes them.  A position is named after
\* what the statement stores: "time" is lines 101, 117 and 134, "recordType"
\* lines 102, 119, 136 and 148, "threadID" lines 103, 120, 137 and 149,
\* "intervalID" lines 121, 138 and 150, "description" lines 104, 122, 139 and
\* 151; in initTelemetry "calib" is line 249, "calibType" line 250, "epoch"
\* line 253, "epochType" line 254 and "latch" line 256.  -O0, -Og and -O1 keep
\* the order of the source; -Os stores the cycle count after the threadID;
\* -O2 and -Os store the recordType of the calibration record first; -O2
\* stores beginningEpoch before the two stores into the epoch record, and -Os
\* stores the recordType of the epoch record first.
StoreOrder(o) ==
    CASE o = "takeTimeStamp" ->
           IF build = "Os" THEN <<"recordType", "threadID", "time", "description">>
           ELSE <<"time", "recordType", "threadID", "description">>
      [] o \in {"startInterval", "stopInterval"} ->
           IF build = "Os"
             THEN <<"recordType", "threadID", "time", "intervalID", "description">>
             ELSE <<"time", "recordType", "threadID", "intervalID", "description">>
      [] o = "annotateInterval" ->
           <<"recordType", "threadID", "intervalID", "description">>
      [] o = "calibration" ->
           IF build \in {"O2", "Os"} THEN <<"calibType", "calib">>
           ELSE <<"calib", "calibType">>
      [] o = "epoch" ->
           CASE build = "O2" -> <<"latch", "epoch", "epochType">>
             [] build = "Os" -> <<"epochType", "epoch", "latch">>
             [] OTHER        -> <<"epoch", "epochType", "latch">>

\* The members the fprintf of a case prints (lines 191, 194, 197, 200, 203,
\* 206), in the order in which the build loads them from the slot (the order
\* of evaluation of the arguments of a call is the compiler's).  beginningEpoch
\* is loaded with the time; no thread stores it while the serialization
\* thread runs.
LoadOrder(kind) ==
    CASE kind \in {"IntervalStart", "IntervalEnd"} ->
           CASE build = "O0" -> <<"intervalID", "description", "time">>
             [] build = "O1" -> <<"description", "time", "intervalID">>
             [] build = "O2" -> <<"description", "intervalID", "time">>
             [] OTHER        -> <<"time", "description", "intervalID">>
      [] kind = "TimeStamp" ->
           IF build = "Og" THEN <<"time", "description">>
           ELSE <<"description", "time">>
      [] kind = "IntervalAnnotation" ->
           IF build = "O0" THEN <<"intervalID", "description">>
           ELSE <<"description", "intervalID">>
      [] OTHER -> <<"time">>

\* A slot of the static (zero-initialised) array: recordType 0 is Calibration.
\* w, n and full are logs: the grant (position in grantLog) whose owner
\* stored into the slot last, the number of stores it has done in a row, and
\* whether these are all the stores of its call.
EmptyRecord ==
    [recordType |-> "Calibration", threadID |-> 0,
     cells |-> <<NullCell, NullCell, NullCell>>,
     w |-> 0, n |-> 0, full |-> FALSE]

NoArg == [intervalID |-> 0, description |-> ""]

Start ==
    /\ recordBuffer = [s \in Slots |-> EmptyRecord]
    /\ recordBufferIndex = 0
    /\ lastSerializedIndex = 0
    /\ beginningEpoch = NullCell
    /\ telemetry_active = 0
    /\ intervalIDCounter = 0
    /\ continueBackgroundSerialization = 1
    /\ pc = [t \in Threads |-> IF t = Main THEN "boot" ELSE "idle"]
    /\ op = [t \in Threads |-> "none"]
    /\ arg = [t \in Threads |-> NoArg]
    /\ recordIndex = [t \in Threads |-> 0]
    /\ newBufferIndex = [t \in Threads |-> 0]
    /\ record = [t \in Threads |-> 0]
    /\ intervalID = [t \in Threads |-> 0]
    /\ ret = [t \in Threads |-> 0]
    /\ calls = 0
    /\ dpc = "none"
    /\ serializationStart = 0
    /\ serializationEnd = 0
    /\ todo = <<>>
    /\ i = 0
    /\ switchType = "none"
    /\ fetched = <<>>
    /\ outfile = [open |-> TRUE, lines |-> <<>>, pending |-> <<>>]
    /\ grantLog = <<>>
    /\ lastGrant = [t \in Threads |-> 0]
    /\ nGrants = 0
    /\ seenGrants = [t \in Threads |-> 0]
    /\ sinceSnap = 0
    /\ prevSnap = 0
    /\ passIdx = <<>>
    /\ drawn = <<>>
    /\ returns = {}
    /\ due = {}
    /\ overflowed = FALSE

Init == Start /\ build \in Builds /\ traced = FALSE

InitTraced == Start /\ build \in Builds /\ traced = TRUE

\* ------------------------------------------------------------- newRecord
\* Where a thread goes once newRecord has returned.
AfterNewRecord(t) ==
    IF op[t] = "startInterval" THEN "fetchAdd" ELSE StoreOrder(op[t])[1]

\* line 84: newBufferIndex = (recordBufferIndex + 1) % RECORD_BUFFER_SIZE;
NextIndex(t) == (recordBufferIndex + 1) % RECORD_BUFFER_SIZE

\* line 83: recordIndex = recordBufferIndex; in a build that does not load
\* the cursor again, line 84 computes with the value loaded here.
ReadIndex(t) ==
    /\ pc[t] = "read1"
    /\ recordIndex' = [recordIndex EXCEPT ![t] = recordBufferIndex]
    /\ seenGrants' = [seenGrants EXCEPT ![t] = nGrants]
    /\ IF RereadsIndex
         THEN /\ pc' = [pc EXCEPT ![t] = "read2"]
              /\ UNCHANGED newBufferIndex
         ELSE /\ pc' = [pc EXCEPT ![t] = "cas"]
              /\ newBufferIndex' = [newBufferIndex EXCEPT ![t] = NextIndex(t)]
    /\ UNCHANGED <<globals, op, arg, record, intervalID, ret, calls,
                   drain, fixed, due, overflowed, grantLog, lastGrant, nGrants, sinceSnap, prevSnap,
                   passIdx, drawn, returns>>

\* line 84, in a build that loads the cursor again.
ComputeNext(t) ==
    /\ pc[t] = "read2"
    /\ newBufferIndex' = [newBufferIndex EXCEPT ![t] = NextIndex(t)]
    /\ pc' = [pc EXCEPT ![t] = "cas"]
    /\ UNCHANGED <<globals, op, arg, recordIndex, record, intervalID, ret, calls,
                   drain, fixed, history>>

\* A compare-and-swap that expects the value computed at line 84.
CasGuardOnNext(t) == recordBufferIndex = newBufferIndex[t]

\* line 85: the compare-and-swap succeeds when the cursor still holds the value
\* read at line 83.
CasGuard(t) == recordBufferIndex = recordIndex[t]

\* line 85 succeeding, and lines 87-88: the slot at the value read at line 83
\* is handed out.
CasSucceed(t) ==
    /\ pc[t] = "cas"
    /\ CasGuard(t)
    /\ recordBufferIndex' = newBufferIndex[t]
    /\ record' = [record EXCEPT ![t] = recordIndex[t]]
    /\ grantLog' = Append(grantLog, recordIndex[t])
    /\ lastGrant' = Track([lastGrant EXCEPT ![t] = nGrants + 1], lastGrant)
    /\ nGrants' = nGrants + 1
    /\ sinceSnap' = sinceSnap + 1
    /\ pc' = [pc EXCEPT ![t] = AfterNewRecord(t)]
    /\ UNCHANGED <<recordBuffer, lastSerializedIndex, beginningEpoch, telemetry_active,
                   intervalIDCounter, continueBackgroundSerialization,
                   op, arg, recordIndex, newBufferIndex, intervalID, ret, calls,
                   drain, fixed, due, overflowed, seenGrants, prevSnap, passIdx, drawn, returns>>

\* line 85 failing: the current value is stored into recordIndex and the loop
\* goes round.
CasFail(t) ==
    /\ pc[t] = "cas"
    /\ ~CasGuard(t)
    /\ recordIndex' = [recordIndex EXCEPT ![t] = recordBufferIndex]
    /\ pc' = [pc EXCEPT ![t] = "read1"]
    /\ UNCHANGED <<globals, op, arg, newBufferIndex, record, intervalID, ret, calls,
                   drain, fixed, history>>

\* ------------------------------------------------------------ Event API
\* A branch on the flag that is always taken as set.
AlwaysActive == TRUE

\* lines 97, 113, 131, 145: if (!telemetry_active) return;
IsActive == telemetry_active # 0

\* What a call that found the flag clear returns (line 113).
DisabledIntervalID == 0

\* The returns with one more: of identifier id, by a call that found the flag
\* set (active) or clear.  An entry counts the calls that returned it.
Returned(rs, id, active) ==
    IF \E e \in rs : e.id = id /\ e.active = active
      THEN {IF e.id = id /\ e.active = active THEN [e EXCEPT !.n = @ + 1] ELSE e : e \in rs}
      ELSE rs \cup {[id |-> id, active |-> active, n |-> 1]}

\* A call of one of the four API functions up to its branch on the flag: a
\* call that finds the flag clear returns at once, the others go on to
\* newRecord (lines 99, 115, 133, 147).
ApiEnter(t, o, id, d) ==
    /\ pc[t] = "idle"
    /\ calls' = calls + 1
    /\ IF IsActive
         THEN /\ op' = [op EXCEPT ![t] = o]
              /\ arg' = [arg EXCEPT ![t] = [intervalID |-> id, description |-> d]]
              /\ pc' = [pc EXCEPT ![t] = "read1"]
              /\ UNCHANGED <<ret, returns>>
         ELSE /\ ret' = [ret EXCEPT ![t] = IF o = "startInterval"
                                             THEN DisabledIntervalID ELSE @]
              /\ returns' = IF o = "startInterval"
                              THEN Returned(returns, DisabledIntervalID, FALSE)
                              ELSE returns
              /\ UNCHANGED <<op, arg, pc>>
    /\ UNCHANGED <<globals, recordIndex, newBufferIndex, record, intervalID,
                   drain, fixed, due, overflowed, grantLog, lastGrant, nGrants, seenGrants, sinceSnap,
                   prevSnap, passIdx, drawn>>

\* A fetch-and-add that adds nothing.
StuckCounter == intervalIDCounter

\* line 116: what the fetch-and-add leaves in intervalIDCounter.
AddedCounter == intervalIDCounter + 1

\* line 116: intervalID = __atomic_fetch_add(&intervalIDCounter, 1, ...);
FetchAdd(t) ==
    /\ pc[t] = "fetchAdd"
    /\ intervalID' = [intervalID EXCEPT ![t] = intervalIDCounter]
    /\ intervalIDCounter' = AddedCounter
    /\ drawn' = Append(drawn, intervalIDCounter)
    /\ pc' = [pc EXCEPT ![t] = StoreOrder(op[t])[1]]
    /\ UNCHANGED <<recordBuffer, recordBufferIndex, lastSerializedIndex, beginningEpoch,
                   telemetry_active, continueBackgroundSerialization,
                   op, arg, recordIndex, newBufferIndex, record, ret, calls,
                   drain, fixed, due, overflowed, grantLog, lastGrant, nGrants, seenGrants, sinceSnap,
                   prevSnap, passIdx, returns>>

RecordTypeOf(o) ==
    CASE o = "takeTimeStamp"    -> "TimeStamp"
      [] o = "startInterval"    -> "IntervalStart"
      [] o = "stopInterval"     -> "IntervalEnd"
      [] o = "annotateInterval" -> "IntervalAnnotation"

\* The stores a call does into its slot: lines 101-104, 117-122, 134-139,
\* 148-151, and for initTelemetry lines 249-250 and 253-254.
NStores(o) ==
    CASE o \in {"startInterval", "stopInterval"}     -> 5
      [] o \in {"takeTimeStamp", "annotateInterval"} -> 4
      [] OTHER                                       -> 2

\* (log) The slot r once thread t has done one more store into it, leaving it
\* as r2.
Stored(t, r, r2) ==
    LET k == IF r.w = lastGrant[t] THEN r.n + 1 ELSE 1
    IN [r2 EXCEPT !.w = lastGrant[t],
                  !.n = Track(k, 0),
                  !.full = Track(k = NStores(op[t]), FALSE)]

\* The frame of a store by thread t into the slot newRecord gave it.
StoreInto(t, r2) ==
    /\ recordBuffer' = [recordBuffer EXCEPT ![record[t]] = Stored(t, @, r2)]
    /\ UNCHANGED <<recordBufferIndex, lastSerializedIndex, beginningEpoch,
                   telemetry_active, intervalIDCounter, continueBackgroundSerialization>>

\* Where a call goes after the store at its position: the next position of
\* its build, or "return" after the last one.
After(t) ==
    LET order == StoreOrder(op[t])
        k == CHOOSE n \in 1..Len(order) : order[n] = pc[t]
    IN IF k = Len(order) THEN "return" ELSE order[k + 1]

\* A call of a producer after one of its stores: it goes on to its next
\* store, or, after the last one, returns (line 124 returns the drawn
\* identifier); the locals of the call die with it.
Proceed(t) ==
    /\ IF After(t) # "return"
         THEN /\ pc' = [pc EXCEPT ![t] = After(t)]
              /\ UNCHANGED <<op, arg, recordIndex, newBufferIndex, record, intervalID,
                             ret, lastGrant, seenGrants, returns>>
         ELSE /\ ret' = [ret EXCEPT ![t] = IF op[t] = "startInterval"
                                             THEN intervalID[t] ELSE @]
              /\ returns' = IF op[t] = "startInterval"
                              THEN Returned(returns, intervalID[t], TRUE)
                              ELSE returns
              /\ op' = [op EXCEPT ![t] = "none"]
              /\ arg' = [arg EXCEPT ![t] = NoArg]
              /\ recordIndex' = [recordIndex EXCEPT ![t] = 0]
              /\ newBufferIndex' = [newBufferIndex EXCEPT ![t] = 0]
              /\ record' = [record EXCEPT ![t] = 0]
              /\ intervalID' = [intervalID EXCEPT ![t] = 0]
              /\ lastGrant' = [lastGrant EXCEPT ![t] = 0]
              /\ seenGrants' = [seenGrants EXCEPT ![t] = 0]
              /\ pc' = [pc EXCEPT ![t] = "idle"]
    /\ UNCHANGED <<calls, drain, fixed, grantLog, nGrants, sinceSnap, prevSnap,
                   passIdx, drawn, due, overflowed>>

\* lines 101, 117, 134: READ_TSC(record->timeStamp.time), or interval.time:
\* an 8-byte store.
WithTime(r) == [r EXCEPT !.cells[TimeCell] = Whole("tsc", TSC)]

StoreTime(t) ==
    /\ pc[t] = "time"
    /\ StoreInto(t, WithTime(recordBuffer[record[t]]))
    /\ Proceed(t)

\* lines 102, 119, 136, 148: record->recordType = ...;
WithRecordType(r, o) == [r EXCEPT !.recordType = RecordTypeOf(o)]

StoreRecordType(t) ==
    /\ pc[t] = "recordType"
    /\ StoreInto(t, WithRecordType(recordBuffer[record[t]], op[t]))
    /\ Proceed(t)

\* lines 103, 120, 137, 149: record->threadID = threadID;
WithThreadID(r, t) == [r EXCEPT !.threadID = t]

StoreThreadID(t) ==
    /\ pc[t] = "threadID"
    /\ StoreInto(t, WithThreadID(recordBuffer[record[t]], t))
    /\ Proceed(t)

\* lines 121, 138: record->interval.intervalID = intervalID; line 150:
\* record->annotation.intervalID = intervalID; a 4-byte store into the low
\* half of the member's cell.
WithIntervalID(r, o, id) ==
    IF o = "annotateInterval"
      THEN [r EXCEPT !.cells[AnnotationIDCell] = StoreLow(@, UInt(id))]
      ELSE [r EXCEPT !.cells[IntervalIDCell] = StoreLow(@, UInt(id))]

StoreIntervalID(t) ==
    /\ pc[t] = "intervalID"
    /\ StoreInto(t, WithIntervalID(recordBuffer[record[t]], op[t],
                                   IF op[t] = "startInterval" THEN intervalID[t]
                                   ELSE arg[t].intervalID))
    /\ Proceed(t)

\* line 104: record->timeStamp.description = description; lines 122, 139:
\* record->interval.description; line 151: record->annotation.description;
\* an 8-byte store into the member's cell, whatever recordType the slot has
\* by now.
WithDescription(r, o, d) ==
    CASE o = "takeTimeStamp" ->
           [r EXCEPT !.cells[TimeStampDescriptionCell] = PointerTo(d)]
      [] o = "annotateInterval" ->
           [r EXCEPT !.cells[AnnotationDescriptionCell] = PointerTo(d)]
      [] OTHER ->
           [r EXCEPT !.cells[IntervalDescriptionCell] = PointerTo(d)]

StoreDescription(t) ==
    /\ pc[t] = "description"
    /\ StoreInto(t, WithDescription(recordBuffer[record[t]], op[t], arg[t].description))
    /\ Proceed(t)

\* The identifier a caller passes to stopInterval and annotateInterval: the one
\* its latest startInterval gave it (0 before its first).
IdArgs(t, o) == IF o \in {"stopInterval", "annotateInterval"} THEN {ret[t]} ELSE {0}

\* A call by thread t of one of the functions ops, while fewer than limit calls
\* have been made.
Call(t, ops, limit) ==
    /\ calls < limit
    /\ \E o \in ops, d \in Descriptions : \E id \in IdArgs(t, o) : ApiEnter(t, o, id, d)

\* The steps of a call under way.
Steps(t) ==
    \/ ReadIndex(t)
    \/ ComputeNext(t)
    \/ CasSucceed(t)
    \/ CasFail(t)
    \/ FetchAdd(t)
    \/ StoreTime(t)
    \/ StoreRecordType(t)
    \/ StoreThreadID(t)
    \/ StoreIntervalID(t)
    \/ StoreDescription(t)

Producer(t) == Call(t, Ops, MaxCalls) \/ Steps(t)

\* The steps of a takeTimeStamp call under way.
TimeStampSteps(t) ==
    \/ ReadIndex(t)
    \/ ComputeNext(t)
    \/ CasSucceed(t)
    \/ CasFail(t)
    \/ StoreTime(t)
    \/ StoreRecordType(t)
    \/ StoreThreadID(t)
    \/ StoreDescription(t)

\* --------------------------------------------------------- initTelemetry
\* What calibrateTSC leaves in ticksPerSecond (the measured ratio, abstracted
\* to one non-zero value).
CalibratedTicks == 1

\* line 244: telemetry_active = 1; then line 246, calibrateTSC(outfile), which
\* touches nothing another thread reads, and the call of newRecord at line 248.
InitSetActive ==
    /\ pc[Main] = "boot"
    /\ telemetry_active' = 1
    /\ op' = [op EXCEPT ![Main] = "calibration"]
    /\ pc' = [pc EXCEPT ![Main] = "read1"]
    /\ UNCHANGED <<recordBuffer, recordBufferIndex, lastSerializedIndex, beginningEpoch,
                   intervalIDCounter, continueBackgroundSerialization,
                   arg, recordIndex, newBufferIndex, record, intervalID, ret, calls,
                   drain, fixed, history>>

\* initTelemetry after one of the statements of lines 249-256: it goes on to
\* the next one of its build; after the last one of the calibration record it
\* calls newRecord for the epoch record (line 252), and after the last one of
\* the epoch record it goes to line 258.
InitProceed ==
    /\ IF After(Main) # "return"
         THEN /\ pc' = [pc EXCEPT ![Main] = After(Main)]
              /\ UNCHANGED <<op, recordIndex, newBufferIndex, record, lastGrant, seenGrants>>
         ELSE IF op[Main] = "calibration"
         THEN /\ op' = [op EXCEPT ![Main] = "epoch"]
              /\ pc' = [pc EXCEPT ![Main] = "read1"]
              /\ UNCHANGED <<recordIndex, newBufferIndex, record, lastGrant, seenGrants>>
         ELSE /\ op' = [op EXCEPT ![Main] = "none"]
              /\ recordIndex' = [recordIndex EXCEPT ![Main] = 0]
              /\ newBufferIndex' = [newBufferIndex EXCEPT ![Main] = 0]
              /\ record' = [record EXCEPT ![Main] = 0]
              /\ lastGrant' = [lastGrant EXCEPT ![Main] = 0]
              /\ seenGrants' = [seenGrants EXCEPT ![Main] = 0]
              /\ pc' = [pc EXCEPT ![Main] = "create"]
    /\ UNCHANGED <<arg, intervalID, ret, calls, drain, fixed, grantLog, nGrants,
                   sinceSnap, prevSnap, passIdx, drawn, returns, due, overflowed>>

\* line 249: calibrationRecord->calibration.ticksPerSecond = ticksPerSecond;
\* (an 8-byte store; the record's threadID is never stored).
WithTicksPerSecond(r) == [r EXCEPT !.cells[TimeCell] = Whole("dbl", CalibratedTicks)]

InitCalibration ==
    /\ pc[Main] = "calib"
    /\ StoreInto(Main, WithTicksPerSecond(recordBuffer[record[Main]]))
    /\ InitProceed

\* line 250: calibrationRecord->recordType = Calibration;
InitCalibrationType ==
    /\ pc[Main] = "calibType"
    /\ StoreInto(Main, [recordBuffer[record[Main]] EXCEPT !.recordType = "Calibration"])
    /\ InitProceed

\* line 253: READ_TSC(epochRecord->epoch.time)
InitEpoch ==
    /\ pc[Main] = "epoch"
    /\ StoreInto(Main, WithTime(recordBuffer[record[Main]]))
    /\ InitProceed

\* line 254: epochRecord->recordType = Epoch;
InitEpochType ==
    /\ pc[Main] = "epochType"
    /\ StoreInto(Main, [recordBuffer[record[Main]] EXCEPT !.recordType = "Epoch"])
    /\ InitProceed

\* line 256: beginningEpoch = epochRecord->epoch.time;
LatchEpoch ==
    /\ pc[Main] = "latch"
    /\ beginningEpoch' = IF LatchesFromSlot
                           THEN recordBuffer[record[Main]].cells[TimeCell]
                           ELSE Whole("tsc", TSC)
    /\ UNCHANGED <<recordBuffer, recordBufferIndex, lastSerializedIndex,
                   telemetry_active, intervalIDCounter, continueBackgroundSerialization>>
    /\ InitProceed

\* line 258: pthread_create(..., backgroundSerialization, outfile);
CreateThread ==
    /\ pc[Main] = "create"
    /\ dpc' = "check"
    /\ pc' = [pc EXCEPT ![Main] = "running"]
    /\ UNCHANGED <<globals, op, arg, recordIndex, newBufferIndex, record, intervalID,
                   ret, calls, serializationStart, serializationEnd, todo, i, switchType,
                   fetched, outfile, fixed, history>>

\* ------------------------------------------------------- finishTelemetry
\* line 263: continueBackgroundSerialization = 0;
Finish ==
    /\ pc[Main] = "running"
    /\ continueBackgroundSerialization' = 0
    /\ pc' = [pc EXCEPT ![Main] = "join"]
    /\ UNCHANGED <<recordBuffer, recordBufferIndex, lastSerializedIndex, beginningEpoch,
                   telemetry_active, intervalIDCounter,
                   op, arg, recordIndex, newBufferIndex, record, intervalID, ret, calls,
                   drain, fixed, history>>

\* line 264: pthread_join(backgroundSerializationThread, NULL);
Join ==
    /\ pc[Main] = "join"
    /\ dpc = "done"
    /\ pc' = [pc EXCEPT ![Main] = "finished"]
    /\ UNCHANGED <<globals, op, arg, recordIndex, newBufferIndex, record, intervalID,
                   ret, calls, drain, fixed, history>>

Owner ==
    \/ InitSetActive
    \/ ReadIndex(Main)
    \/ ComputeNext(Main)
    \/ CasSucceed(Main)
    \/ CasFail(Main)
    \/ InitCalibration
    \/ InitCalibrationType
    \/ InitEpoch
    \/ InitEpochType
    \/ LatchEpoch
    \/ CreateThread
    \/ Finish
    \/ Join

\* ----------------------------------------------- backgroundSerialization
\* line 229: while (continueBackgroundSerialization), and line 230: sleep(1);
DrainCheck ==
    /\ dpc = "check"
    /\ dpc' = IF continueBackgroundSerialization # 0 THEN "snapshot" ELSE "close"
    /\ UNCHANGED <<globals, locals, serializationStart, serializationEnd, todo, i,
                   switchType, fetched, outfile, fixed, history>>

\* The two ranges of a wrapped region in the wrong order.
RangesSwapped(start, end) ==
    IF end < start
      THEN << <<0, end>>, <<start, RECORD_BUFFER_SIZE>> >>
      ELSE << <<start, end>> >>

\* Equal cursors taken as a full ring, not an empty one.
RangesFullLap(start, end) ==
    IF end <= start
      THEN << <<start, RECORD_BUFFER_SIZE>>, <<0, end>> >>
      ELSE << <<start, end>> >>

\* lines 217-222: the ranges serializeTelemetryBuffer hands to
\* serializeTelemetryBufferRange, in the order of the calls.
Ranges(start, end) ==
    IF end < start
      THEN << <<start, RECORD_BUFFER_SIZE>>, <<0, end>> >>
      ELSE << <<start, end>> >>

\* line 184: a call whose loop condition fails at once returns, and the next
\* call starts: the ranges left once the empty ones in front are done.
RECURSIVE SkipEmpty(_)
SkipEmpty(rs) ==
    IF rs = <<>> THEN <<>>
    ELSE IF Head(rs)[1] < Head(rs)[2] THEN rs
    ELSE SkipEmpty(Tail(rs))

\* (log) The grants after grant n whose record is in its slot with its last
\* store done.
CompleteSince(n) ==
    {recordBuffer[s].w : s \in {x \in Slots : recordBuffer[x].full /\ recordBuffer[x].w > n}}

\* lines 214-215: the two cursors are read (lastSerializedIndex is written by
\* this thread alone), and serializeTelemetryBufferRange is called.
DrainSnapshot ==
    /\ dpc = "snapshot"
    /\ serializationEnd' = recordBufferIndex
    /\ serializationStart' = lastSerializedIndex
    /\ todo' = SkipEmpty(Ranges(lastSerializedIndex, recordBufferIndex))
    /\ i' = IF todo' = <<>> THEN 0 ELSE Head(todo')[1]
    /\ prevSnap' = sinceSnap
    /\ sinceSnap' = 0
    /\ passIdx' = <<>>
    /\ due' = Track(due \cup CompleteSince(nGrants - sinceSnap), due)
    /\ overflowed' = Track(overflowed \/ sinceSnap > RECORD_BUFFER_SIZE, overflowed)
    /\ dpc' = "render"
    /\ UNCHANGED <<globals, locals, switchType, fetched, outfile, fixed, grantLog, lastGrant,
                   nGrants, seenGrants, drawn, returns>>

\* The cell the fprintf of a case reads its %s argument from (lines 197, 200,
\* 203, 206); 0 for the cases that print no string.
StringCell(kind) ==
    CASE kind = "TimeStamp"                       -> TimeStampDescriptionCell
      [] kind \in {"IntervalStart", "IntervalEnd"} -> IntervalDescriptionCell
      [] kind = "IntervalAnnotation"              -> AnnotationDescriptionCell
      [] OTHER                                    -> 0

\* A cell that, read as a pointer, is neither NULL nor the address of a string
\* literal: the bytes of an intervalID, alone or over the high half of an
\* older pointer.  Nothing in the file says whether the process has mapped
\* such an address: that depends on what else the process has allocated.
Wild(cell) ==
    /\ cell # NullCell
    /\ \A a \in 1..Len(StringTable) : cell # Whole("ptr", a)

\* What %s prints for a wild pointer whose address is mapped: the bytes found
\* there up to the first zero byte (every such string abstracted to one).
ForeignBytes == "<bytes of another mapping>"

\* What %s prints for a cell (NULL prints as "(null)"), when it prints.
StringAt(cell) ==
    CASE cell = NullCell -> "(null)"
      [] Wild(cell)      -> ForeignBytes
      [] OTHER           -> StringTable[cell[1][3]]

\* Whether the fprintf of the case kind, given the members of r, dereferences
\* a wild pointer: it faults where the address is not mapped.
Faults(kind, r) == StringCell(kind) # 0 /\ Wild(r.cells[StringCell(kind)])

\* The cell of the slot a member printed by the case kind lies in.
MemberCell(kind, member) ==
    CASE member = "time"        -> TimeCell
      [] member = "description" -> StringCell(kind)
      [] member = "intervalID"  -> IF kind = "IntervalAnnotation" THEN AnnotationIDCell
                                   ELSE IntervalIDCell

\* What the load of a member from the slot r gives: the 8 bytes of its cell,
\* or, for an intervalID, the 4 bytes of the low half of its cell.
LoadOf(kind, member, r) ==
    IF member = "intervalID"
      THEN StoreLow(NullCell, Low(r.cells[MemberCell(kind, member)]))
      ELSE r.cells[MemberCell(kind, member)]

\* The members the fprintf of the case kind has loaded (values, in the order
\* of LoadOrder), as the cells of a record: the record the fprintf prints.
Loaded(kind, values) ==
    LET order == LoadOrder(kind)
    IN [c \in 1..3 |->
          IF \E k \in 1..Len(order) : MemberCell(kind, order[k]) = c
            THEN values[CHOOSE k \in 1..Len(order) : MemberCell(kind, order[k]) = c]
            ELSE NullCell]

\* lines 187-208: the line printed for a slot: the thread id printed at line
\* 187, the case chosen at line 189, and the members the fprintf of that case
\* prints, given as the record r (a member the case does not print is blank
\* here: a zero cell or word, or "").  Numbers are the cells and words as they are in
\* memory.  slot, w and full are history.
Line(s, tid, kind, r) ==
    LET timed == kind \in {"TimeStamp", "IntervalStart", "IntervalEnd"}
    IN [threadID |-> tid,
        kind |-> kind,
        ticksPerSecond |-> IF kind = "Calibration" THEN r.cells[TimeCell] ELSE NullCell,
        time |-> IF kind = "Epoch" \/ timed THEN r.cells[TimeCell] ELSE NullCell,
        epoch |-> IF timed THEN beginningEpoch ELSE NullCell,
        description |-> IF StringCell(kind) # 0
                          THEN StringAt(r.cells[StringCell(kind)]) ELSE "",
        intervalID |-> CASE kind \in {"IntervalStart", "IntervalEnd"} ->
                              Low(r.cells[IntervalIDCell])
                         [] kind = "IntervalAnnotation" -> Low(r.cells[AnnotationIDCell])
                         [] OTHER -> ZeroWord,
        slot |-> s, w |-> r.w, full |-> r.full]

\* The positions of a thread that holds a slot and has not left the statements
\* that store into it.
StoringAt ==
    {"calib", "calibType", "epoch", "epochType", "latch", "fetchAdd",
     "time", "recordType", "threadID", "intervalID", "description"}

\* A loop that starts on a slot only once no thread holds it for writing.
DrainRenderWhenStored ==
    /\ dpc = "render"
    /\ todo # <<>>
    /\ \A t \in Threads : pc[t] \in StoringAt => record[t] # i
    /\ outfile' = [outfile EXCEPT !.pending = Track(<<recordBuffer[i].threadID>>, @)]
    /\ dpc' = "switch"
    /\ UNCHANGED <<globals, locals, serializationStart, serializationEnd, todo, i,
                   switchType, fetched, fixed, history>>

\* lines 184-187: the loop condition holds, and the threadID of recordBuffer[i]
\* is read and printed.
DrainRender ==
    /\ dpc = "render"
    /\ todo # <<>>
    /\ outfile' = [outfile EXCEPT !.pending = Track(<<recordBuffer[i].threadID>>, @)]
    /\ dpc' = "switch"
    /\ UNCHANGED <<globals, locals, serializationStart, serializationEnd, todo, i,
                   switchType, fetched, fixed, history>>

\* line 189: switch(record->recordType): the recordType is read.
DrainSwitch ==
    /\ dpc = "switch"
    /\ switchType' = recordBuffer[i].recordType
    /\ dpc' = "print"
    /\ UNCHANGED <<globals, locals, serializationStart, serializationEnd, todo, i,
                   fetched, outfile, fixed, history>>

\* What the fprintf of the case has loaded once it loads its next member.
FetchNext ==
    Append(fetched,
           LoadOf(switchType, LoadOrder(switchType)[Len(fetched) + 1], recordBuffer[i]))

\* lines 191-206: the fprintf of the case loads a member it prints, not the
\* last one.
DrainLoad ==
    /\ dpc = "print"
    /\ Len(fetched) + 1 < Len(LoadOrder(switchType))
    /\ fetched' = FetchNext
    /\ UNCHANGED <<globals, locals, dpc, serializationStart, serializationEnd, todo, i,
                   switchType, outfile, fixed, history>>

\* The record the fprintf of the case prints: the slot (for the logs) with
\* the members as they were loaded.
Printed == [recordBuffer[i] EXCEPT !.cells = Loaded(switchType, FetchNext)]

\* lines 190-208: the fprintf of the case loads the last member it prints and
\* ends the line; then i++ (line 184), and after the last iteration of a call
\* the call returns and the next call (line 219), if there is one, starts.  An
\* fprintf whose %s argument is a wild pointer either faults (the address is
\* not mapped: the process is killed, with all of its threads) or prints the
\* bytes it finds there and goes on.
DrainPrint ==
    /\ dpc = "print"
    /\ Len(fetched) + 1 = Len(LoadOrder(switchType))
    /\ \/ /\ Faults(switchType, Printed)
          /\ pc' = [t \in Threads |-> "killed"]
          /\ dpc' = "killed"
          /\ UNCHANGED <<op, arg, recordIndex, newBufferIndex, record, intervalID,
                         ret, calls, todo, i, switchType, fetched, outfile, passIdx>>
       \/ /\ outfile' =
               IF traced
                 THEN [outfile EXCEPT
                         !.lines = Append(@, Line(i, outfile.pending[1], switchType,
                                                  Printed)),
                         !.pending = <<>>]
                 ELSE outfile
          /\ passIdx' = Append(passIdx, i)
          /\ todo' = SkipEmpty(<< <<i + 1, Head(todo)[2]>> >> \o Tail(todo))
          /\ i' = IF todo' = <<>> THEN 0 ELSE Head(todo')[1]
          /\ switchType' = "none"
          /\ fetched' = <<>>
          /\ dpc' = "render"
          /\ UNCHANGED locals
    /\ UNCHANGED <<globals, serializationStart, serializationEnd,
                   fixed, due, overflowed, grantLog, lastGrant, nGrants, seenGrants, sinceSnap,
                   prevSnap, drawn, returns>>

\* A pass that also clears the slots it has rendered.
DrainStoreAndClear ==
    /\ dpc = "render"
    /\ todo = <<>>
    /\ lastSerializedIndex' = serializationEnd
    /\ recordBuffer' = [s \in Slots |->
                          IF \E k \in 1..Len(passIdx) : passIdx[k] = s
                            THEN EmptyRecord ELSE recordBuffer[s]]
    /\ serializationStart' = 0
    /\ serializationEnd' = 0
    /\ passIdx' = <<>>
    /\ dpc' = "check"
    /\ UNCHANGED <<recordBufferIndex, beginningEpoch, telemetry_active,
                   intervalIDCounter, continueBackgroundSerialization, locals,
                   todo, i, switchType, fetched, outfile,
                   fixed, due, overflowed, grantLog, lastGrant, nGrants, seenGrants,
                   sinceSnap, prevSnap, drawn, returns>>

\* line 224: lastSerializedIndex = serializationEnd;
DrainStore ==
    /\ dpc = "render"
    /\ todo = <<>>
    /\ lastSerializedIndex' = serializationEnd
    /\ serializationStart' = 0
    /\ serializationEnd' = 0
    /\ passIdx' = <<>>
    /\ dpc' = "check"
    /\ UNCHANGED <<recordBuffer, recordBufferIndex, beginningEpoch, telemetry_active,
                   intervalIDCounter, continueBackgroundSerialization, locals,
                   todo, i, switchType, fetched, outfile,
                   fixed, due, overflowed, grantLog, lastGrant, nGrants, seenGrants, sinceSnap,
                   prevSnap, drawn, returns>>

\* line 234: fclose(outfile); line 236: the thread ends.
DrainClose ==
    /\ dpc = "close"
    /\ outfile' = [outfile EXCEPT !.open = FALSE]
    /\ dpc' = "done"
    /\ UNCHANGED <<globals, locals, serializationStart, serializationEnd, todo, i,
                   switchType, fetched, fixed, history>>

\* The positions of the serialization thread inside a pass (lines 214-224).
InPass == dpc \in {"render", "switch", "print"}

Drain ==
    \/ DrainCheck
    \/ DrainSnapshot
    \/ DrainRender
    \/ DrainSwitch
    \/ DrainLoad
    \/ DrainPrint
    \/ DrainStore
    \/ DrainClose

Next ==
    \/ Owner
    \/ \E t \in Producers : Producer(t)
    \/ Drain

Spec == Init /\ [][Next]_vars

\* The owning thread's initTelemetry.
InitTelemetry ==
    \/ InitSetActive
    \/ ReadIndex(Main)
    \/ ComputeNext(Main)
    \/ CasSucceed(Main)
    \/ CasFail(Main)
    \/ InitCalibration
    \/ InitCalibrationType
    \/ InitEpoch
    \/ InitEpochType
    \/ LatchEpoch
    \/ CreateThread

\* The two API functions that differ in how they allocate: startInterval
\* draws an identifier after newRecord, takeTimeStamp does not.
AllocOps == {"takeTimeStamp", "startInterval"}

\* The runs in which the serialization thread, once created, is not scheduled
\* and the producers call takeTimeStamp (the call that is newRecord and the
\* stores into the slot): initTelemetry and the producers, in every
\* interleaving.
NextAlloc ==
    \/ InitTelemetry
    \/ \E t \in Producers : Call(t, {"takeTimeStamp"}, MaxCalls) \/ TimeStampSteps(t)

SpecAlloc == Init /\ [][NextAlloc]_vars

\* The runs in which the serialization thread is not scheduled and the
\* producers call the functions of AllocOps, with fewer calls.
NextRace ==
    \/ InitTelemetry
    \/ \E t \in Producers : Call(t, AllocOps, MaxRaceCalls) \/ Steps(t)

SpecRace == Init /\ [][NextRace]_vars

\* The runs of NextRace in which every call of a producer is a startInterval
\* call (the call that draws an identifier).
NextIntervals ==
    \/ InitTelemetry
    \/ \E t \in Producers : Call(t, {"startInterval"}, MaxRaceCalls) \/ Steps(t)

SpecIntervals == Init /\ [][NextIntervals]_vars

\* The runs in which one producer thread makes all the calls: the owning
\* thread, that producer and the serialization thread, in every interleaving.
Solo == CHOOSE t \in Producers : TRUE

NextDrain ==
    \/ Owner
    \/ Producer(Solo)
    \/ Drain

SpecDrain == Init /\ [][NextDrain]_vars

SpecDrainTraced == InitTraced /\ [][NextDrain]_vars

\* ------------------------------------------------------------------ claims
\* C1 (as stated; refuted by the two reads of recordBufferIndex in newRecord,
\* in the build that keeps both):
\* any RECORD_BUFFER_SIZE consecutive successful grants, in the order of their
\* successful compare-and-swap, return distinct slot indices; in particular
\* two consecutive grants never return the same index.
C1_ConsecutiveGrantsDistinct ==
    \A a, b \in 1..Len(grantLog) :
        (a < b /\ b < a + RECORD_BUFFER_SIZE) => grantLog[a] # grantLog[b]

\* C2 (as stated): no two startInterval calls return the same identifier.
C2_NoTwoCallsSameIdentifier ==
    /\ \A e \in returns : e.n = 1
    /\ \A e, f \in returns : e.id = f.id => e = f

\* The threads whose startInterval call has drawn an identifier (held in its
\* local intervalID) and not yet returned it.
HeldIdentifiers ==
    {t \in Threads : pc[t] \in (StoringAt \ {"fetchAdd"}) /\ op[t] = "startInterval"}

\* C2 (amended): the identifiers returned by the startInterval calls that found
\* the active flag set never repeat, and they are drawn in strictly increasing
\* order: the call that does the k-th fetch-and-add holds, and returns, a
\* larger identifier than every call that did an earlier one.
C2_ActiveIdentifiersIncrease ==
    /\ \A e \in returns : e.active => e.n = 1
    /\ \A a, b \in 1..Len(drawn) : a < b => drawn[a] < drawn[b]
    /\ \A e \in returns : e.active => \E k \in 1..Len(drawn) : drawn[k] = e.id
    /\ \A t \in HeldIdentifiers :
          /\ \E k \in 1..Len(drawn) : drawn[k] = intervalID[t]
          /\ \A u \in HeldIdentifiers : u # t => intervalID[u] # intervalID[t]
          /\ \A e \in returns : e.active => e.id # intervalID[t]

\* C2, witness: two calls that found the flag set have returned their identifiers.
C2_TwoActiveReturns ==
    \E e, f \in returns : e.active /\ f.active /\ e.id < f.id

\* C3: a step taken while telemetry_active is clear leaves the write cursor,
\* every slot, the interval counter and the sink as they are, grants no slot
\* and leaves no call under way; a startInterval call that returns in it
\* returns the identifier 0.
C3_DisabledCallIsNoOp ==
    [][telemetry_active = 0 =>
         /\ recordBufferIndex' = recordBufferIndex
         /\ recordBuffer' = recordBuffer
         /\ intervalIDCounter' = intervalIDCounter
         /\ outfile' = outfile
         /\ nGrants' = nGrants
         /\ \A t \in Producers : pc'[t] = "idle" /\ (ret'[t] # ret[t] => ret'[t] = 0)
         /\ \A e \in returns' : e \notin returns => e.id = 0 /\ ~e.active]_vars

\* C3, witness: calls have been made, one of them startInterval, with the flag clear.
C3_DisabledCallsMade ==
    /\ telemetry_active = 0
    /\ calls > 1
    /\ \E e \in returns : ~e.active

\* The slot indices from a up to b - 1, in increasing order.
UpTo(a, b) == IF a < b THEN [k \in 1..(b - a) |-> a + k - 1] ELSE <<>>

\* The order a pass over the region from start to end has to render in.
RegionOrder(start, end) ==
    IF end < start THEN UpTo(start, RECORD_BUFFER_SIZE) \o UpTo(0, end)
    ELSE UpTo(start, end)

\* C4: a pass whose snapshot has end < start renders start, ..., C-1 and then
\* 0, ..., end-1, each once and in that order; a pass with end >= start renders
\* start, ..., end-1 in increasing order.
C4_PassRendersInOrder ==
    InPass =>
       LET want == RegionOrder(serializationStart, serializationEnd)
       IN /\ Len(passIdx) <= Len(want)
          /\ passIdx = SubSeq(want, 1, Len(passIdx))
          /\ todo = <<>> => passIdx = want

\* C4, witness: a pass over a region that wraps, with slots on both sides of
\* the wrap, has rendered all of it.
C4_WrappedPassDone ==
    /\ dpc = "render"
    /\ todo = <<>>
    /\ 0 < serializationEnd
    /\ serializationEnd < serializationStart
    /\ Len(passIdx) > 1

\* ---- what the logs say about the rendered lines
\* The grants whose record some rendered line shows.
RenderedW == {outfile.lines[k].w : k \in 1..Len(outfile.lines)}

\* The lines of the current pass, as the grants whose records they show.
PassW ==
    [k \in 1..Len(passIdx) |->
        outfile.lines[Len(outfile.lines) - Len(passIdx) + k].w]

\* The number of rendered lines that show the record of grant g.
RECURSIVE CountW(_, _)
CountW(g, n) ==
    IF n = 0 THEN 0
    ELSE CountW(g, n - 1) + (IF outfile.lines[n].w = g THEN 1 ELSE 0)

\* The grants at the latest drain snapshot.
SnapGrants == nGrants - sinceSnap

\* C5 (as stated; refuted: a pass renders (end - start) mod RECORD_BUFFER_SIZE
\* slots, whatever the number of grants): a pass whose snapshot found more
\* than RECORD_BUFFER_SIZE grants since the snapshot before it (since the
\* start, for the first pass), the RECORD_BUFFER_SIZE latest of them complete
\* in their slots, and during which no slot is granted, renders exactly those
\* RECORD_BUFFER_SIZE latest records, in the order of their grants.
C5_OverflowPassRendersLatest ==
    (/\ dpc = "render"
     /\ todo = <<>>
     /\ prevSnap > RECORD_BUFFER_SIZE
     /\ sinceSnap = 0
     /\ \A k \in 1..RECORD_BUFFER_SIZE : (SnapGrants - RECORD_BUFFER_SIZE + k) \in due)
    => PassW = [k \in 1..RECORD_BUFFER_SIZE |-> SnapGrants - RECORD_BUFFER_SIZE + k]

\* C6 (as stated; refuted: the write cursor moves before the record is
\* stored, and a pass renders every slot below the cursor): no two rendered
\* lines show the record of the same grant.
C6_RenderedLinesInjective ==
    \A a, b \in 1..Len(outfile.lines) :
        (a < b /\ outfile.lines[a].w # 0) => outfile.lines[a].w # outfile.lines[b].w

\* The wraparound-aware index set [a, b).
Between(a, b) ==
    IF a <= b THEN {s \in Slots : a <= s /\ s < b}
    ELSE {s \in Slots : s >= a \/ s < b}

\* The slots that hold a complete record no rendered line shows.
WrittenNotRendered ==
    {s \in Slots : recordBuffer[s].full /\ recordBuffer[s].w \notin RenderedW}

\* The threads that hold a slot they have not finished storing into.
Storing == {t \in Threads : pc[t] \in StoringAt}

\* C7 (as stated, at the instants that favour it: no pass under way, no slot
\* granted and not yet stored, never more than RECORD_BUFFER_SIZE grants
\* between snapshots; refuted at exactly RECORD_BUFFER_SIZE grants, where the
\* two cursors are equal): the index set [lastSerializedIndex,
\* recordBufferIndex) is the set of the slots that hold a written record not
\* yet rendered.
C7_RegionIsWrittenNotRendered ==
    (/\ ~InPass
     /\ dpc # "killed"
     /\ Storing = {}
     /\ ~overflowed
     /\ sinceSnap <= RECORD_BUFFER_SIZE)
    => Between(lastSerializedIndex, recordBufferIndex) = WrittenNotRendered

\* C8 (as stated; refuted at exactly RECORD_BUFFER_SIZE grants between two
\* snapshots, where the pass renders nothing): while no snapshot has found
\* more than RECORD_BUFFER_SIZE grants since the one before it, a record that
\* was complete at the first snapshot after its grant is never rendered twice,
\* and once the pass of that snapshot is over it has been rendered once.
C8_CompleteRecordsRenderedOnce ==
    ~overflowed =>
        \A g \in due :
            /\ CountW(g, Len(outfile.lines)) <= 1
            /\ (~InPass /\ dpc # "killed") => CountW(g, Len(outfile.lines)) = 1

\* ---- the producers against the serialization thread
\* The runs of one producer thread, the owning thread and the serialization
\* thread in which the producer keeps taking the steps of its calls; the
\* serialization thread may stop at any point, and for good.
NextDrainFair ==
    \/ Owner
    \/ Call(Solo, Ops, MaxRaceCalls)
    \/ Steps(Solo)
    \/ Drain

SpecDrainFair == Init /\ [][NextDrainFair]_vars /\ WF_vars(Steps(Solo))

\* C9 (as stated; refuted in its last part alone, by the fault of DrainPrint:
\* the process is killed with a call under way): no step of a call waits for
\* the serialization thread.  Wherever that thread is, and however many slots
\* have been granted since its latest snapshot, a call under way can take its
\* next step, a compare-and-swap that finds the cursor as it was read
\* succeeds, and the slot granted is the one at the write cursor (the oldest
\* position of the ring); every call returns, also in the runs in which the
\* serialization thread takes no step.
C9_NoBackpressure ==
    /\ [](\A t \in Producers :
            /\ pc[t] \notin {"idle", "killed"} => ENABLED Steps(t)
            /\ (pc[t] = "cas" /\ recordBufferIndex = recordIndex[t])
                  => ENABLED CasSucceed(t))
    /\ [][\A t \in Producers :
            (pc[t] = "cas" /\ pc'[t] \notin {"cas", "read1", "killed"})
                => record'[t] = recordBufferIndex]_vars
    /\ (pc[Solo] # "idle") ~> (pc[Solo] = "idle")

\* ---- lock freedom
\* The threads inside the retry loop of newRecord.
InLoop == {t \in Threads : pc[t] \in {"read1", "read2", "cas"}}

\* The runs in which the producers call takeTimeStamp (the call that is
\* newRecord and the stores into the slot) while initTelemetry allocates its
\* two slots, and every thread keeps taking its steps.
NextRaceFair ==
    \/ InitTelemetry
    \/ \E t \in Producers : Call(t, {"takeTimeStamp"}, MaxRaceCalls) \/ TimeStampSteps(t)

SpecRaceFair ==
    /\ Init
    /\ [][NextRaceFair]_vars
    /\ WF_vars(InitTelemetry)
    /\ \A t \in Producers : WF_vars(TimeStampSteps(t))

\* C10: a compare-and-swap fails only after some compare-and-swap has
\* succeeded since the failing thread read the cursor at line 83; and every
\* thread inside the retry loop leaves it with a slot.
C10_LockFree ==
    /\ [][\A t \in Threads :
            (pc[t] = "cas" /\ pc'[t] = "read1") => nGrants > seenGrants[t]]_vars
    /\ \A t \in Threads : (t \in InLoop) ~> (t \notin InLoop)

\* C10, witness: a producer is back at line 83 after a failed compare-and-swap.
C10_RetryAfterFailure ==
    \E t \in Producers : pc[t] = "read1" /\ seenGrants[t] > 0

\* ---- stopping
\* The runs of one producer thread, the owning thread and the serialization
\* thread in which every thread keeps taking its steps (the owning thread
\* ends initTelemetry and calls finishTelemetry).
SpecStopFair ==
    /\ Init
    /\ [][NextDrainFair]_vars
    /\ WF_vars(Owner)
    /\ WF_vars(Steps(Solo))
    /\ WF_vars(Drain)

\* C11 (as stated; refuted by the fault of DrainPrint: the serialization
\* thread is killed inside its last pass, with the whole process, and the
\* sink is never closed): once continueBackgroundSerialization is 0, the
\* serialization thread
\* starts no pass from its loop test (a pass it was already sleeping towards
\* or rendering is the last one: after it the thread goes to the loop test and
\* from there to fclose), once it has left the loop it renders nothing and
\* never comes back, finishTelemetry has returned only if the thread has
\* ended with the sink closed, and the thread does end and finishTelemetry
\* does return.
C11_StopsAfterCurrentCycle ==
    /\ [][continueBackgroundSerialization = 0 =>
            /\ dpc = "check" => dpc' \in {"check", "close"}
            /\ InPass => (InPass' \/ dpc' = "check")
            /\ dpc \in {"close", "done"} =>
                  (dpc' \in {"close", "done"} /\ passIdx' = passIdx
                     /\ outfile'.lines = outfile.lines)]_vars
    /\ [](pc[Main] = "finished" => (dpc = "done" /\ ~outfile.open))
    /\ [](dpc = "done" => ~outfile.open)
    /\ (continueBackgroundSerialization = 0) ~> (dpc = "done" /\ pc[Main] = "finished")

\* ---- the order of initTelemetry
\* The place of a position in the order of the stores of a build.
Place(order, position) == CHOOSE n \in 1..Len(order) : order[n] = position

\* Line 256 has latched the epoch: the owning thread is past initTelemetry's
\* stores (a process that is killed is killed by its serialization thread,
\* which line 258 creates), or it is at a store that its build puts after the
\* store of line 256.
EpochLatched ==
    \/ pc[Main] \in {"create", "running", "join", "finished", "killed"}
    \/ /\ op[Main] = "epoch"
       /\ pc[Main] \in {"epoch", "epochType"}
       /\ Place(StoreOrder("epoch"), pc[Main]) > Place(StoreOrder("epoch"), "latch")

\* C12 (as stated; refuted: line 244 sets telemetry_active before anything
\* else): the flag is set only once the serialization thread has been
\* started; no call of a producer holds a slot, or has drawn one, before the
\* epoch is latched; and the slots of the Calibration and Epoch records are
\* the first two granted.
C12_ActiveSetLast ==
    /\ telemetry_active # 0 => pc[Main] \in {"running", "join", "finished"}
    /\ \A t \in Producers : pc[t] # "idle" => EpochLatched
    /\ (op[Main] = "calibration" /\ pc[Main] \in StoringAt) => nGrants = 1
    /\ (op[Main] = "epoch" /\ pc[Main] \in StoringAt) => nGrants = 2

\* ---- the stores of a record against the loop that renders it
\* The runs of NextDrainFair with the logs kept.
SpecRenderTraced == InitTraced /\ [][NextDrainFair]_vars

\* The runs in which one producer thread calls the functions of AllocOps while
\* initTelemetry runs and the serialization thread makes its passes;
\* finishTelemetry is not called.  The logs are kept.
NextRender ==
    \/ InitTelemetry
    \/ Call(Solo, AllocOps, MaxRaceCalls)
    \/ Steps(Solo)
    \/ DrainCheck
    \/ DrainSnapshot
    \/ DrainRender
    \/ DrainSwitch
    \/ DrainLoad
    \/ DrainPrint
    \/ DrainStore

SpecRenderLines == InitTraced /\ [][NextRender]_vars

\* The line rendered last.
LastLine == outfile.lines[Len(outfile.lines)]

\* C13: nothing orders the stores of a call into its slot and the rendering
\* of that slot.  The loop of serializeTelemetryBufferRange can render its
\* next slot whoever holds it, a call can do its stores wherever the loop is,
\* and what is rendered of the slot (the thread id, the case, each member of
\* the line) is the slot's content at the moment of its load.
C13_RenderAndStoresUnordered ==
    /\ [](/\ (dpc = "render" /\ todo # <<>>) => ENABLED DrainRender
          /\ dpc = "switch" => ENABLED DrainSwitch
          /\ dpc = "print" => ENABLED (DrainLoad \/ DrainPrint)
          /\ \A t \in Producers :
                /\ pc[t] = "time" => ENABLED StoreTime(t)
                /\ pc[t] = "recordType" => ENABLED StoreRecordType(t)
                /\ pc[t] = "threadID" => ENABLED StoreThreadID(t)
                /\ pc[t] = "intervalID" => ENABLED StoreIntervalID(t)
                /\ pc[t] = "description" => ENABLED StoreDescription(t))
    /\ [][/\ outfile.pending' # outfile.pending /\ outfile.pending' # <<>> =>
               outfile.pending' = <<recordBuffer[i].threadID>>
          /\ switchType' # switchType /\ switchType' # "none" =>
               switchType' = recordBuffer[i].recordType
          /\ fetched' # fetched /\ fetched' # <<>> => fetched' = FetchNext
          /\ Len(outfile.lines') > Len(outfile.lines) =>
               outfile.lines' = Append(outfile.lines,
                                       Line(i, outfile.pending[1], switchType,
                                            Printed))]_vars

\* C13, witness: the line rendered last shows the record of a producer's
\* grant with some of the call's stores done and the others not yet done,
\* the producer still being between two of its stores.
C13_RenderedHalfWritten ==
    /\ Len(outfile.lines) > 0
    /\ \E t \in Producers :
          /\ pc[t] \in {"time", "recordType", "threadID", "intervalID", "description"}
          /\ LastLine.slot = record[t]
          /\ LastLine.w = lastGrant[t]
          /\ ~LastLine.full
          /\ LastLine.threadID # t

\* ---- the step of the write cursor
\* C14 (as stated; refuted by the second read of recordBufferIndex at line
\* 84, in the build that keeps it): a successful compare-and-swap that grants slot i leaves the cursor at
\* (i + 1) mod RECORD_BUFFER_SIZE, so after n grants the cursor, which starts
\* at 0, is n mod RECORD_BUFFER_SIZE.
C14_CursorIsGrantsModSize ==
    /\ recordBufferIndex = nGrants % RECORD_BUFFER_SIZE
    /\ nGrants > 0 =>
          recordBufferIndex = (grantLog[nGrants] + 1) % RECORD_BUFFER_SIZE

\* ---- the drain cursor after a pass
\* The runs in which both producers call takeTimeStamp while initTelemetry
\* runs and the serialization thread makes its passes; finishTelemetry is
\* not called.
NextPass ==
    \/ InitTelemetry
    \/ \E t \in Producers : Call(t, {"takeTimeStamp"}, MaxRaceCalls) \/ TimeStampSteps(t)
    \/ DrainCheck
    \/ DrainSnapshot
    \/ DrainRender
    \/ DrainSwitch
    \/ DrainLoad
    \/ DrainPrint
    \/ DrainStore

SpecPass == Init /\ [][NextPass]_vars

\* The slots granted since the latest snapshot of the serialization thread.
GrantedSinceSnap == {grantLog[k] : k \in (nGrants - sinceSnap + 1)..nGrants}

\* C15 (as stated; refuted by an allocation of C14 that leaves the cursor
\* where it was): once a pass has stored lastSerializedIndex (the cursor as
\* the pass snapshotted it), the slots granted since that snapshot, fewer
\* than RECORD_BUFFER_SIZE of them, all lie in [lastSerializedIndex,
\* recordBufferIndex), where the next pass renders them.
C15_GrantsDuringPassDeferred ==
    (/\ dpc \in {"check", "snapshot"}
     /\ prevSnap > 0
     /\ sinceSnap < RECORD_BUFFER_SIZE)
    => GrantedSinceSnap \subseteq Between(lastSerializedIndex, recordBufferIndex)

\* ---- who writes what
\* C16: a step of the serialization thread (its position or its progress in
\* the pass changes) leaves recordBufferIndex, intervalIDCounter,
\* telemetry_active and every slot as they are; a step of a producer's call
\* leaves lastSerializedIndex and beginningEpoch as they are; and
\* lastSerializedIndex changes only in the step that ends a pass.
C16_SingleWriter ==
    [][/\ (dpc' # dpc \/ passIdx' # passIdx \/ todo' # todo) =>
             /\ recordBufferIndex' = recordBufferIndex
             /\ intervalIDCounter' = intervalIDCounter
             /\ telemetry_active' = telemetry_active
             /\ recordBuffer' = recordBuffer
       /\ (\E t \in Producers : pc'[t] # pc[t]) \/ calls' # calls =>
             /\ lastSerializedIndex' = lastSerializedIndex
             /\ beginningEpoch' = beginningEpoch
       /\ lastSerializedIndex' # lastSerializedIndex =>
             (dpc = "render" /\ dpc' = "check")]_vars

\* C16, witness: a pass that rendered slots has ended and startInterval calls
\* have stored their records.
C16_BothSidesWrote ==
    /\ lastSerializedIndex # 0
    /\ dpc = "check"
    /\ intervalIDCounter > 0
    /\ pc[Solo] = "idle"
    /\ \E s \in Slots : recordBuffer[s].recordType = "IntervalStart"

\* ---- the size of a pass
\* C17: a pass that has rendered all of its region has rendered
\* (serializationEnd - serializationStart) mod RECORD_BUFFER_SIZE slots; no
\* pass renders RECORD_BUFFER_SIZE slots; and a pass whose snapshot finds the
\* two cursors equal renders nothing, however many slots were granted since
\* the snapshot before.
C17_PassRendersDifferenceModSize ==
    InPass =>
       /\ Len(passIdx) < RECORD_BUFFER_SIZE
       /\ (dpc = "render" /\ todo = <<>>) =>
             Len(passIdx) = (serializationEnd + RECORD_BUFFER_SIZE - serializationStart)
                               % RECORD_BUFFER_SIZE
       /\ serializationEnd = serializationStart => (todo = <<>> /\ passIdx = <<>>)

\* C17, witness: a pass whose snapshot found RECORD_BUFFER_SIZE slots granted
\* since the snapshot before it, and the two cursors equal, is over with
\* nothing rendered.
C17_FullLapRendersNothing ==
    /\ dpc = "render"
    /\ todo = <<>>
    /\ passIdx = <<>>
    /\ prevSnap = RECORD_BUFFER_SIZE
    /\ serializationEnd = serializationStart

\* ---- the identifier of a disabled call
\* C18 (as stated; refuted: intervalIDCounter starts at 0, line 91, and line
\* 113 returns 0): no startInterval call that found telemetry_active set
\* returns the identifier that a call that finds it clear returns.
C18_SentinelNotARealIdentifier ==
    \A e \in returns : e.active => e.id # DisabledIntervalID

\* ---- the first pass
\* The kinds of the rendered lines, in the order of rendering.
RenderedKinds == [k \in 1..Len(outfile.lines) |-> outfile.lines[k].kind]

\* C19 (as stated; refuted: the loop of backgroundSerialization tests the
\* flag before its first pass): when the sink is closed after initTelemetry
\* and finishTelemetry, no Event API call having been made, the Calibration
\* line and the Epoch line have been rendered.
C19_InitRecordsRenderedBeforeClose ==
    (~outfile.open /\ calls = 0) => RenderedKinds = <<"Calibration", "Epoch">>

\* ---- the order of the identifiers against the order of the slots
\* The runs of SpecRace with the logs kept.
SpecRaceTraced == InitTraced /\ [][NextRace]_vars

\* C20 (as stated; refuted: the compare-and-swap of newRecord, line 85, and
\* the fetch-and-add, line 116, are two separate atomic operations): of two
\* startInterval calls that have both drawn their identifiers, the one whose
\* slot was granted earlier holds the smaller identifier.
C20_IdentifiersFollowGrants ==
    \A t, u \in HeldIdentifiers :
        lastGrant[t] < lastGrant[u] => intervalID[t] < intervalID[u]

====
